---- MODULE Spec2Model ----
(***************************************************************************)
(* A model of the truth-table generator: the scanner (scanner.ts), the     *)
(* AST node types (ast.ts) and the TruthTable component that parses the    *)
(* text of the input field and lays out one row per truth assignment.      *)
(*                                                                         *)
(* Text is a sequence of characters, one string per UTF-16 code unit.      *)
(* The eight non-ASCII operator glyphs are written by their code unit,     *)
(* "u2227" for U+2227 and so on.  Offsets are 0-based as in the source;    *)
(* sequences are 1-based, so charAt(input, k) reads input[k + 1].          *)
(***************************************************************************)
EXTENDS Integers, Sequences, FiniteSets, TLC

(***************************************************************************)
(* Characters                                                              *)
(***************************************************************************)
Lower == {"a", "b", "c", "d", "e", "f", "g", "h", "i", "j", "k", "l", "m",
          "n", "o", "p", "q", "r", "s", "t", "u", "v", "w", "x", "y", "z"}

Upper == {"A", "B", "C", "D", "E", "F", "G", "H", "I", "J", "K", "L", "M",
          "N", "O", "P", "Q", "R", "S", "T", "U", "V", "W", "X", "Y", "Z"}

Digit == {"0", "1", "2", "3", "4", "5", "6", "7", "8", "9"}

\* The code units of the characters a name is made of, in increasing order:
\* 0-9 (48..57), A-Z (65..90), _ (95), a-z (97..122).
NameCharOrder ==
    <<"0", "1", "2", "3", "4", "5", "6", "7", "8", "9",
      "A", "B", "C", "D", "E", "F", "G", "H", "I", "J", "K", "L", "M",
      "N", "O", "P", "Q", "R", "S", "T", "U", "V", "W", "X", "Y", "Z",
      "_",
      "a", "b", "c", "d", "e", "f", "g", "h", "i", "j", "k", "l", "m",
      "n", "o", "p", "q", "r", "s", "t", "u", "v", "w", "x", "y", "z">>

\* kScannerConstants.EOF
EOF == "$"

\* The token type given to a variable by makeVariableToken.
variableType == <<"v", "a", "r", "i", "a", "b", "l", "e">>

\* null, the result of a failed read.  No successful read is empty.
null == <<>>

\* input.charAt(index): the empty string outside the text.
charAt(input, index) ==
    IF index >= 0 /\ index < Len(input) THEN input[index + 1] ELSE ""

\* input.substring(from, to) for 0 <= from <= to, clamped to the text.
substring(input, from, to) ==
    LET hi == IF to > Len(input) THEN Len(input) ELSE to
    IN  IF from >= hi THEN <<>> ELSE SubSeq(input, from + 1, hi)

(***************************************************************************)
(* The alias table                                                         *)
(***************************************************************************)
convert ==
    <<"/", "\\">> :> <<"/", "\\">> @@
    <<"&", "&">> :> <<"/", "\\">> @@
    <<"a", "n", "d">> :> <<"/", "\\">> @@
    <<"u2227">> :> <<"/", "\\">> @@
    <<"\\", "l", "a", "n", "d">> :> <<"/", "\\">> @@
    <<"\\", "w", "e", "d", "g", "e">> :> <<"/", "\\">> @@
    <<"\\", "/">> :> <<"\\", "/">> @@
    <<"|", "|">> :> <<"\\", "/">> @@
    <<"o", "r">> :> <<"\\", "/">> @@
    <<"u2228">> :> <<"\\", "/">> @@
    <<"\\", "l", "o", "r">> :> <<"\\", "/">> @@
    <<"\\", "v", "e", "e">> :> <<"\\", "/">> @@
    <<"-", ">">> :> <<"-", ">">> @@
    <<"=", ">">> :> <<"-", ">">> @@
    <<"u2192">> :> <<"-", ">">> @@
    <<"i", "m", "p", "l", "i", "e", "s">> :> <<"-", ">">> @@
    <<"\\", "t", "o">> :> <<"-", ">">> @@
    <<"\\", "r", "i", "g", "h", "t", "a", "r", "r", "o", "w">> :> <<"-", ">">> @@
    <<"\\", "R", "i", "g", "h", "t", "a", "r", "r", "o", "w">> :> <<"-", ">">> @@
    <<"\\", "i", "m", "p", "l", "i", "e", "s">> :> <<"-", ">">> @@
    <<"<", "-", ">">> :> <<"<", "-", ">">> @@
    <<"<", "=", ">">> :> <<"<", "-", ">">> @@
    <<"u2194">> :> <<"<", "-", ">">> @@
    <<"i", "f", "f">> :> <<"<", "-", ">">> @@
    <<"\\", "l", "e", "f", "t", "r", "i", "g", "h", "t", "a", "r", "r", "o", "w">> :> <<"<", "-", ">">> @@
    <<"\\", "L", "e", "f", "t", "r", "i", "g", "h", "t", "a", "r", "r", "o", "w">> :> <<"<", "-", ">">> @@
    <<"\\", "e", "q", "u", "i", "v">> :> <<"<", "-", ">">> @@
    <<"\\", "s", "a", "m", "e">> :> <<"<", "-", ">">> @@
    <<"~">> :> <<"~">> @@
    <<"n", "o", "t">> :> <<"~">> @@
    <<"!">> :> <<"~">> @@
    <<"u00AC">> :> <<"~">> @@
    <<"\\", "l", "n", "o", "t">> :> <<"~">> @@
    <<"\\", "n", "e", "g">> :> <<"~">> @@
    <<"^">> :> <<"^">> @@
    <<"x", "o", "r">> :> <<"^">> @@
    <<"u2295">> :> <<"^">> @@
    <<"\\", "n", "i", "f", "f">> :> <<"^">> @@
    <<"\\", "o", "p", "l", "u", "s">> :> <<"^">> @@
    <<"T">> :> <<"T">> @@
    <<"u22A4">> :> <<"T">> @@
    <<"t", "r", "u", "e">> :> <<"T">> @@
    <<"\\", "t", "o", "p">> :> <<"T">> @@
    <<"F">> :> <<"F">> @@
    <<"u22A5">> :> <<"F">> @@
    <<"f", "a", "l", "s", "e">> :> <<"F">> @@
    <<"\\", "b", "o", "t">> :> <<"F">>

\* convert[input] without the fallback: an unknown lexeme has no type.
translateNoFallback(input) ==
    IF input \in DOMAIN convert THEN convert[input] ELSE <<>>

\* The table with the type of && taken from the line of ||.
translateSwapped(input) ==
    IF input = <<"&", "&">> THEN <<"\\", "/">>
    ELSE IF input \in DOMAIN convert THEN convert[input] ELSE input

\* translate: the canonical token type of a lexeme; a lexeme the table does
\* not know (the EOF marker) is its own type.
translate(input) ==
    IF input \in DOMAIN convert THEN convert[input] ELSE input

\* Array(20): operators[n] holds the aliases of length n, n in 0..19.
OperatorsLength == 20

operators ==
    [n \in 0..(OperatorsLength - 1) |-> {key \in DOMAIN convert : Len(key) = n}]

(***************************************************************************)
(* Character classes                                                       *)
(***************************************************************************)
\* /[A-Za-z_]/
NameStart == Lower \cup Upper \cup {"_"}

\* /[A-Za-z_0-9]/
NameChar == NameStart \cup Digit

\* /\s/ : the white space characters of the model's alphabet.
Whitespace == {" ", "\t", "\n", "\r", "\f", "u00A0"}

isWhitespace(char) == char \in Whitespace

\* okayChars of checkIntegrity.
okayChars ==
    NameChar \cup {"\\", "/", "<", ">", "-", "~", "^", "(", ")"} \cup Whitespace
    \cup {"&", "|", "=", "!"}
    \cup {"u2227", "u2228", "u2192", "u2194", "u22A4", "u22A5", "u00AC", "u2295"}

(***************************************************************************)
(* Thrown errors and returned values                                       *)
(***************************************************************************)
\* scannerFail: throw { description, start, end }.
scannerFail(why, start, end) ==
    [thrown |-> TRUE, description |-> why, start |-> start, end |-> end]

(***************************************************************************)
(* Tokens                                                                  *)
(***************************************************************************)
\* The end taken as the offset of the last character, not the one after it.
makeIdentityTokenInclusive(str, index) ==
    [type |-> translate(str), start |-> index, end |-> index + Len(str) - 1]

makeIdentityToken(str, index) ==
    [type |-> translate(str), start |-> index, end |-> index + Len(str)]

makeVariableToken(varIndex, start, end) ==
    [type |-> variableType, index |-> varIndex, start |-> start, end |-> end]

\* The list of reserved words without "and".
isReservedWordMutant(token) ==
    token \in {<<"T">>, <<"F">>, <<"o", "r">>, <<"n", "o", "t">>, <<"i", "f", "f">>,
               <<"i", "m", "p", "l", "i", "e", "s">>, <<"t", "r", "u", "e">>,
               <<"f", "a", "l", "s", "e">>, <<"x", "o", "r">>}

isReservedWord(token) ==
    \/ token = <<"T">>
    \/ token = <<"F">>
    \/ token = <<"a", "n", "d">>
    \/ token = <<"o", "r">>
    \/ token = <<"n", "o", "t">>
    \/ token = <<"i", "f", "f">>
    \/ token = <<"i", "m", "p", "l", "i", "e", "s">>
    \/ token = <<"t", "r", "u", "e">>
    \/ token = <<"f", "a", "l", "s", "e">>
    \/ token = <<"x", "o", "r">>

\* The while loop of tryReadVariableName: the run of name characters at index.
RECURSIVE readNameChars(_, _)
readNameChars(input, index) ==
    IF charAt(input, index) \in NameChar
    THEN <<charAt(input, index)>> \o readNameChars(input, index + 1)
    ELSE <<>>

tryReadVariableName(input, index) ==
    IF charAt(input, index) \notin NameStart
    THEN null
    ELSE LET result == readNameChars(input, index)
         IN  IF isReservedWord(result) THEN null ELSE result

isVariableStart(input, index) == tryReadVariableName(input, index) # null

\* The for loop run from the shortest alias up: the first alias that matches.
RECURSIVE tryReadOperatorUp(_, _, _)
tryReadOperatorUp(input, index, i) ==
    IF i >= OperatorsLength
    THEN null
    ELSE IF index >= Len(input) - i
    THEN tryReadOperatorUp(input, index, i + 1)
    ELSE LET nChars == substring(input, index, index + i)
         IN  IF nChars \in operators[i]
             THEN nChars
             ELSE tryReadOperatorUp(input, index, i + 1)

tryReadOperatorFromShortest(input, index, i) == tryReadOperatorUp(input, index, 0)

\* The for loop of tryReadOperator, from alias length i down to 0.
RECURSIVE tryReadOperatorFrom(_, _, _)
tryReadOperatorFrom(input, index, i) ==
    IF i < 0
    THEN null
    ELSE IF index >= Len(input) - i
    THEN tryReadOperatorFrom(input, index, i - 1)
    ELSE LET nChars == substring(input, index, index + i)
         IN  IF nChars \in operators[i]
             THEN nChars
             ELSE tryReadOperatorFrom(input, index, i - 1)

tryReadOperator(input, index) ==
    tryReadOperatorFrom(input, index, OperatorsLength - 1)

isOperatorStart(input, index) == tryReadOperator(input, index) # null

(***************************************************************************)
(* The variable set: a plain object used as a dictionary.                  *)
(* It is modelled by its own enumerable keys in insertion order.           *)
(***************************************************************************)
Range(s) == {s[k] : k \in DOMAIN s}

\* The key whose assignment goes to the accessor inherited from
\* Object.prototype instead of creating a property.
ProtoKey == <<"_", "_", "p", "r", "o", "t", "o", "_", "_">>

\* What reading variableSet["__proto__"] yields: the prototype object, which is
\* no number.  It is told apart from every index by being negative.
ObjectPrototype == -1

\* variableSet[variableName] = true.  The setter of __proto__ ignores a value
\* that is neither an object nor null, so no property is created for it.
setProperty(variableSet, variableName) ==
    IF variableName = ProtoKey \/ variableName \in Range(variableSet)
    THEN variableSet
    ELSE Append(variableSet, variableName)

\* scanVariable: the name read, and the variable set with the name stored.
scanVariable(input, index, variableSet) ==
    LET variableName == tryReadVariableName(input, index)
    IN  [name |-> variableName, variableSet |-> setProperty(variableSet, variableName)]

(***************************************************************************)
(* checkIntegrity                                                          *)
(***************************************************************************)
\* The offsets of the error counted from 1.
RECURSIVE checkIntegrityFromOne(_, _)
checkIntegrityFromOne(input, i) ==
    IF i >= Len(input)
    THEN [thrown |-> FALSE]
    ELSE IF charAt(input, i) \notin okayChars
    THEN scannerFail(<<"Illegal character">>, i + 1, i + 2)
    ELSE checkIntegrityFromOne(input, i + 1)

RECURSIVE checkIntegrityFrom(_, _)
checkIntegrityFrom(input, i) ==
    IF i >= Len(input)
    THEN [thrown |-> FALSE]
    ELSE IF charAt(input, i) \notin okayChars
    THEN scannerFail(<<"Illegal character">>, i, i + 1)
    ELSE checkIntegrityFrom(input, i + 1)

checkIntegrity(input) == checkIntegrityFrom(input, 0)

(***************************************************************************)
(* preliminaryScan                                                         *)
(***************************************************************************)
\* One iteration of while (true) at index i, and the iterations after it.
\* input already ends with the EOF marker.
RECURSIVE scanLoop(_, _, _, _)
scanLoop(input, i, variableSet, tokens) ==
    LET curr == charAt(input, i)
    IN  IF curr = EOF
        THEN [thrown |-> FALSE,
              tokens |-> Append(tokens, makeIdentityToken(<<curr>>, i)),
              variableSet |-> variableSet]
        ELSE IF isVariableStart(input, i)
        THEN LET read == scanVariable(input, i, variableSet)
                 variable == read.name
             IN  scanLoop(input, i + Len(variable), read.variableSet,
                          Append(tokens,
                                 makeVariableToken(variable, i, i + Len(variable))))
        ELSE IF isOperatorStart(input, i)
        THEN LET token == tryReadOperator(input, i)
             IN  scanLoop(input, i + Len(token), variableSet,
                          Append(tokens, makeIdentityToken(token, i)))
        ELSE IF isWhitespace(charAt(input, i))
        THEN scanLoop(input, i + 1, variableSet, tokens)
        ELSE scannerFail(<<"The character ", charAt(input, i), " shouldn't be here.">>,
                         i, i + 1)

preliminaryScan(input) == scanLoop(input \o <<EOF>>, 0, <<>>, <<>>)

(***************************************************************************)
(* numberVariables                                                         *)
(***************************************************************************)
\* The UTF-16 code unit of a name character.
CodeUnit ==
    [c \in NameChar |->
        LET p == CHOOSE k \in DOMAIN NameCharOrder : NameCharOrder[k] = c
        IN  IF p <= 10 THEN 47 + p
            ELSE IF p <= 36 THEN 54 + p
            ELSE IF p = 37 THEN 95
            ELSE 59 + p]

\* The default comparison of Array.prototype.sort: code unit by code unit,
\* a proper prefix first.
RECURSIVE strLess(_, _)
strLess(a, b) ==
    IF a = <<>> THEN b # <<>>
    ELSE IF b = <<>> THEN FALSE
    ELSE IF CodeUnit[Head(a)] # CodeUnit[Head(b)]
    THEN CodeUnit[Head(a)] < CodeUnit[Head(b)]
    ELSE strLess(Tail(a), Tail(b))

\* variables.sort() on distinct names.
sort(keys) ==
    [k \in 1..Len(keys) |->
        CHOOSE name \in Range(keys) :
            Cardinality({other \in Range(keys) : strLess(other, name)}) = k - 1]

\* preliminary.variableSet[name] once every variables[i] has been given i.
lookup(variables, name) ==
    IF name \in Range(variables)
    THEN (CHOOSE k \in DOMAIN variables : variables[k] = name) - 1
    ELSE ObjectPrototype

numberVariables(preliminary) ==
    LET variables == sort(preliminary.variableSet)
    IN  [thrown |-> FALSE,
         tokens |-> [k \in DOMAIN preliminary.tokens |->
                        LET token == preliminary.tokens[k]
                        IN  IF token.type = variableType
                            THEN [token EXCEPT !.index = lookup(variables, token.index)]
                            ELSE token],
         variables |-> variables]

(***************************************************************************)
(* scan                                                                    *)
(***************************************************************************)
scan(input) ==
    LET integrity == checkIntegrity(input)
    IN  IF integrity.thrown
        THEN integrity
        ELSE LET preliminary == preliminaryScan(input)
             IN  IF preliminary.thrown
                 THEN preliminary
                 ELSE numberVariables(preliminary)

(***************************************************************************)
(* AST nodes (ast.ts).  A node is a record; "node" names the constructor.   *)
(* Values are the JavaScript values the methods return: the booleans and,  *)
(* for a property that does not exist, undefined.                          *)
(***************************************************************************)
true == "true"

false == "false"

undefined == "undefined"

\* ToBoolean of a value an evaluate can return.
truthy(v) == v = true

\* !v
not(v) == IF truthy(v) THEN false ELSE true

trueNode == [node |-> "trueNode"]

falseNode == [node |-> "falseNode"]

negateNode(underlying) == [node |-> "negateNode", underlying |-> underlying]

andNode(lhs, rhs) == [node |-> "andNode", lhs |-> lhs, rhs |-> rhs]

orNode(lhs, rhs) == [node |-> "orNode", lhs |-> lhs, rhs |-> rhs]

impliesNode(lhs, rhs) == [node |-> "impliesNode", lhs |-> lhs, rhs |-> rhs]

iffNode(lhs, rhs) == [node |-> "iffNode", lhs |-> lhs, rhs |-> rhs]

xorNode(lhs, rhs) == [node |-> "xorNode", lhs |-> lhs, rhs |-> rhs]

variableNode(index) == [node |-> "variableNode", index |-> index]

\* assignment[index]: the element of an array of booleans, undefined when
\* the array has no such element.
element(assignment, index) ==
    IF index \in DOMAIN assignment THEN assignment[index] ELSE undefined

\* lhs && rhs : rhs is evaluated only when lhs is truthy.
andEvaluate(l, r) == IF truthy(l) THEN r ELSE l

\* lhs || rhs : rhs is evaluated only when lhs is not truthy.
orEvaluate(l, r) == IF truthy(l) THEN l ELSE r

\* lhs || rhs, the negation of lhs forgotten.
impliesEvaluateMutant(l, r) == IF truthy(l) THEN l ELSE r

\* !lhs || rhs
impliesEvaluate(l, r) == IF truthy(not(l)) THEN not(l) ELSE r

\* lhs === rhs
iffEvaluate(l, r) == IF l = r THEN true ELSE false

\* lhs !== rhs
xorEvaluate(l, r) == IF l # r THEN true ELSE false

\* node.evaluate(assignment); assignment maps the indices 0..n-1 to booleans.
RECURSIVE evaluate(_, _)
evaluate(n, assignment) ==
    CASE n.node = "trueNode" -> true
      [] n.node = "falseNode" -> false
      [] n.node = "negateNode" -> not(evaluate(n.underlying, assignment))
      [] n.node = "andNode" ->
            andEvaluate(evaluate(n.lhs, assignment), evaluate(n.rhs, assignment))
      [] n.node = "orNode" ->
            orEvaluate(evaluate(n.lhs, assignment), evaluate(n.rhs, assignment))
      [] n.node = "impliesNode" ->
            impliesEvaluate(evaluate(n.lhs, assignment), evaluate(n.rhs, assignment))
      [] n.node = "iffNode" ->
            iffEvaluate(evaluate(n.lhs, assignment), evaluate(n.rhs, assignment))
      [] n.node = "xorNode" ->
            xorEvaluate(evaluate(n.lhs, assignment), evaluate(n.rhs, assignment))
      [] n.node = "variableNode" -> element(assignment, n.index)

\* variables[index] in a rendering: the name, or nothing for a missing element.
nameOf(variables, index) ==
    IF index + 1 \in DOMAIN variables THEN variables[index + 1] ELSE <<"undefined">>

\* node.toString(variables): the HTML text, as the sequence of its pieces.
RECURSIVE toString(_, _)
toString(n, variables) ==
    CASE n.node = "trueNode" -> <<"&#8868;">>
      [] n.node = "falseNode" -> <<"&#8869;">>
      [] n.node = "negateNode" -> <<"&not;">> \o toString(n.underlying, variables)
      [] n.node = "andNode" ->
            <<"(">> \o toString(n.lhs, variables) \o <<" &and; ">>
                    \o toString(n.rhs, variables) \o <<")">>
      [] n.node = "orNode" ->
            <<"(">> \o toString(n.lhs, variables) \o <<" &or; ">>
                    \o toString(n.rhs, variables) \o <<")">>
      [] n.node = "impliesNode" ->
            <<"(">> \o toString(n.lhs, variables) \o <<" &rarr; ">>
                    \o toString(n.rhs, variables) \o <<")">>
      [] n.node = "iffNode" ->
            <<"(">> \o toString(n.lhs, variables) \o <<" &harr; ">>
                    \o toString(n.rhs, variables) \o <<")">>
      [] n.node = "xorNode" ->
            <<"(">> \o toString(n.lhs, variables) \o <<" &oplus; ">>
                    \o toString(n.rhs, variables) \o <<")">>
      [] n.node = "variableNode" -> nameOf(variables, n.index)

\* toLatex with the parentheses of a conjunction left to precedence.
RECURSIVE toLatexUnwrapped(_, _)
toLatexUnwrapped(n, variables) ==
    CASE n.node = "trueNode" -> <<"T">>
      [] n.node = "falseNode" -> <<"F">>
      [] n.node = "negateNode" -> <<"\\neg ">> \o toLatexUnwrapped(n.underlying, variables)
      [] n.node = "variableNode" -> nameOf(variables, n.index)
      [] n.node = "andNode" ->
            toLatexUnwrapped(n.lhs, variables) \o <<" \\land ">>
                \o toLatexUnwrapped(n.rhs, variables)
      [] OTHER ->
            <<"(">> \o toLatexUnwrapped(n.lhs, variables)
                    \o <<IF n.node = "orNode" THEN " \\lor "
                          ELSE IF n.node = "impliesNode" THEN " \\implies "
                          ELSE IF n.node = "iffNode" THEN " \\iff " ELSE " \\oplus ">>
                    \o toLatexUnwrapped(n.rhs, variables) \o <<")">>

\* node.toLatex(variables): the LaTeX text, as the sequence of its pieces.
RECURSIVE toLatex(_, _)
toLatex(n, variables) ==
    CASE n.node = "trueNode" -> <<"T">>
      [] n.node = "falseNode" -> <<"F">>
      [] n.node = "negateNode" -> <<"\\neg ">> \o toLatex(n.underlying, variables)
      [] n.node = "andNode" ->
            <<"(">> \o toLatex(n.lhs, variables) \o <<" \\land ">>
                    \o toLatex(n.rhs, variables) \o <<")">>
      [] n.node = "orNode" ->
            <<"(">> \o toLatex(n.lhs, variables) \o <<" \\lor ">>
                    \o toLatex(n.rhs, variables) \o <<")">>
      [] n.node = "impliesNode" ->
            <<"(">> \o toLatex(n.lhs, variables) \o <<" \\implies ">>
                    \o toLatex(n.rhs, variables) \o <<")">>
      [] n.node = "iffNode" ->
            <<"(">> \o toLatex(n.lhs, variables) \o <<" \\iff ">>
                    \o toLatex(n.rhs, variables) \o <<")">>
      [] n.node = "xorNode" ->
            <<"(">> \o toLatex(n.lhs, variables) \o <<" \\oplus ">>
                    \o toLatex(n.rhs, variables) \o <<")">>
      [] n.node = "variableNode" -> nameOf(variables, n.index)

(***************************************************************************)
(* The order in which evaluate visits a tree.  A node of a tree is named   *)
(* by its path from the root: the sequence of the fields followed.         *)
(***************************************************************************)
\* The node of n at the end of path.
RECURSIVE at(_, _)
at(n, path) ==
    IF path = <<>> THEN n
    ELSE IF Head(path) = "lhs" THEN at(n.lhs, Tail(path))
    ELSE IF Head(path) = "rhs" THEN at(n.rhs, Tail(path))
    ELSE at(n.underlying, Tail(path))

\* The paths of paths, each behind the field taken first.
below(field, paths) == [k \in DOMAIN paths |-> <<field>> \o paths[k]]

\* A binary node that evaluates its right operand whatever the left one is.
rhsEvaluatedAlways(n, l) == TRUE

\* Whether evaluate of the binary node n calls rhs.evaluate once
\* lhs.evaluate has returned l: && goes on when l is truthy, || when its
\* left operand is not, === and !== always.
rhsEvaluated(n, l) ==
    CASE n.node = "andNode" -> truthy(l)
      [] n.node = "orNode" -> ~truthy(l)
      [] n.node = "impliesNode" -> ~truthy(not(l))
      [] n.node = "iffNode" -> TRUE
      [] n.node = "xorNode" -> TRUE

\* The calls of evaluate made by n.evaluate(assignment), itself included,
\* in the order they are made, each named by the path of its node.
RECURSIVE evaluateCalls(_, _)
evaluateCalls(n, assignment) ==
    CASE n.node \in {"trueNode", "falseNode", "variableNode"} -> <<<<>>>>
      [] n.node = "negateNode" ->
            <<<<>>>> \o below("underlying", evaluateCalls(n.underlying, assignment))
      [] OTHER ->
            <<<<>>>> \o below("lhs", evaluateCalls(n.lhs, assignment))
                     \o IF rhsEvaluated(n, evaluate(n.lhs, assignment))
                        THEN below("rhs", evaluateCalls(n.rhs, assignment))
                        ELSE <<>>

(***************************************************************************)
(* The factored rendering (toLatexVar) and its label counter.              *)
(* keys, a plain object, is modelled by its entries in insertion order:    *)
(* each is a key with the pair [latex, value] stored under it.             *)
(***************************************************************************)
\* The characters of the code units 65 to 126 (u0060 is the grave accent).
CodeUnits ==
    <<"A", "B", "C", "D", "E", "F", "G", "H", "I", "J", "K", "L", "M",
      "N", "O", "P", "Q", "R", "S", "T", "U", "V", "W", "X", "Y", "Z",
      "[", "\\", "]", "^", "_", "u0060",
      "a", "b", "c", "d", "e", "f", "g", "h", "i", "j", "k", "l", "m",
      "n", "o", "p", "q", "r", "s", "t", "u", "v", "w", "x", "y", "z",
      "{", "|", "}", "~">>

\* String.fromCharCode(code): the code is taken modulo 2^16.  A code unit
\* outside 65..126 is written with its number.
fromCharCode(code) ==
    LET unit == code % 65536
    IN  IF unit - 64 \in DOMAIN CodeUnits
        THEN CodeUnits[unit - 64]
        ELSE "u+" \o ToString(unit)

\* let state = 0
initialState == 0

\* resetState()
resetState == initialState

\* keys[key] = [latex, v]: a new key is added after the others, a key that
\* exists keeps its place.  (Only keys that are not array indices are
\* modelled: a digit is the code unit of no state below 65519.)
put(keys, key, latex, v) ==
    LET entry == [key |-> key, latex |-> latex, value |-> v]
    IN  IF \E k \in DOMAIN keys : keys[k].key = key
        THEN [k \in DOMAIN keys |-> IF keys[k].key = key THEN entry ELSE keys[k]]
        ELSE Append(keys, entry)

\* The label taken without ++state.
allocateMutant(ctx, latex, v) ==
    LET var_char == fromCharCode(65 + ctx.state)
    IN  [text |-> <<var_char>>,
         keys |-> put(ctx.keys, var_char, latex, v),
         state |-> ctx.state]

\* const var_char = String.fromCharCode(65 + state); ++state;
\* keys[var_char] = [latex, this.evaluate(assignment)]; return var_char;
allocate(ctx, latex, v) ==
    LET var_char == fromCharCode(65 + ctx.state)
    IN  [text |-> <<var_char>>,
         keys |-> put(ctx.keys, var_char, latex, v),
         state |-> ctx.state + 1]

\* The constant true rendered as toLatex renders it.
trueToLatexVarMutant == <<"T">>

\* trueNode: toLatexVar: () => "\\top"
trueToLatexVar == <<"\\top">>

\* falseNode: toLatexVar: () => "\\bot"
falseToLatexVar == <<"\\bot">>

\* node.toLatexVar(variables, assignment, keys) called with the counter at
\* ctx.state and the entries ctx.keys: the text returned, and the entries
\* and the counter it leaves.  The left operand is rendered first, then the
\* right one, then the node takes its label.
RECURSIVE toLatexVar(_, _, _, _)
toLatexVar(n, variables, assignment, ctx) ==
    CASE n.node = "trueNode" ->
            [text |-> trueToLatexVar, keys |-> ctx.keys, state |-> ctx.state]
      [] n.node = "falseNode" ->
            [text |-> falseToLatexVar, keys |-> ctx.keys, state |-> ctx.state]
      [] n.node = "variableNode" ->
            [text |-> nameOf(variables, n.index), keys |-> ctx.keys, state |-> ctx.state]
      [] n.node = "negateNode" ->
            LET u == toLatexVar(n.underlying, variables, assignment, ctx)
            IN  [text |-> <<"\\neg ">> \o u.text, keys |-> u.keys, state |-> u.state]
      [] n.node = "andNode" ->
            LET l == toLatexVar(n.lhs, variables, assignment, ctx)
                r == toLatexVar(n.rhs, variables, assignment, l)
            IN  allocate(r, <<"(">> \o l.text \o <<" \\land ">> \o r.text \o <<")">>,
                         evaluate(n, assignment))
      [] n.node = "orNode" ->
            LET l == toLatexVar(n.lhs, variables, assignment, ctx)
                r == toLatexVar(n.rhs, variables, assignment, l)
            IN  allocate(r, <<"(">> \o l.text \o <<" \\lor ">> \o r.text \o <<")">>,
                         evaluate(n, assignment))
      [] n.node = "impliesNode" ->
            LET l == toLatexVar(n.lhs, variables, assignment, ctx)
                r == toLatexVar(n.rhs, variables, assignment, l)
            IN  allocate(r, <<"(">> \o l.text \o <<" \\implies ">> \o r.text \o <<")">>,
                         evaluate(n, assignment))
      [] n.node = "iffNode" ->
            LET l == toLatexVar(n.lhs, variables, assignment, ctx)
                r == toLatexVar(n.rhs, variables, assignment, l)
            IN  allocate(r, <<"(">> \o l.text \o <<" \\iff ">> \o r.text \o <<")">>,
                         evaluate(n, assignment))
      [] n.node = "xorNode" ->
            LET l == toLatexVar(n.lhs, variables, assignment, ctx)
                r == toLatexVar(n.rhs, variables, assignment, l)
            IN  allocate(r, <<"(">> \o l.text \o <<" \\oplus ">> \o r.text \o <<")">>,
                         evaluate(n, assignment))

\* toLatexVar(ast, variables, assignment, keys), the function the component
\* imports from ast: one top-level rendering pass, its counter reset first.
toLatexVarImported(n, variables, assignment, ctx) ==
    toLatexVar(n, variables, assignment, [keys |-> ctx.keys, state |-> resetState])

(***************************************************************************)
(* The parser (parser.ts), which TruthTable.svelte imports.  Its grammar   *)
(* and its errors are those of the specification: IFF (chaining to the     *)
(* left), IMPLIES (to the right), XOR, OR, AND, NOT, atom, from the        *)
(* loosest to the tightest.                                                *)
(***************************************************************************)
\* The canonical token types of the alias table.
AND == <<"/", "\\">>

OR == <<"\\", "/">>

IMPLIES == <<"-", ">">>

IFF == <<"<", "-", ">">>

NOT == <<"~">>

XOR == <<"^">>

TOP == <<"T">>

BOT == <<"F">>

LPAREN == <<"(">>

RPAREN == <<")">>

\* throw { description, start, end } with the span of the offending token.
parseFail(why, token) ==
    [thrown |-> TRUE, description |-> <<why>>, start |-> token.start, end |-> token.end]

parsed(n, pos) == [thrown |-> FALSE, ast |-> n, pos |-> pos]

\* The binary levels, loosest first, with the operator and the node of each.
levelOperator == <<IFF, IMPLIES, XOR, OR, AND>>

levelNode(level, lhs, rhs) ==
    CASE level = 1 -> iffNode(lhs, rhs)
      [] level = 2 -> impliesNode(lhs, rhs)
      [] level = 3 -> xorNode(lhs, rhs)
      [] level = 4 -> orNode(lhs, rhs)
      [] level = 5 -> andNode(lhs, rhs)

RECURSIVE parseLevel(_, _, _), parseRest(_, _, _, _), parseNot(_, _), parseAtom(_, _)

\* An atom: a variable, T, F or a parenthesized expression.  tokens[pos] is
\* the next token; the last token is always EOF.
parseAtom(tokens, pos) ==
    LET token == tokens[pos]
    IN  CASE token.type = variableType -> parsed(variableNode(token.index), pos + 1)
          [] token.type = TOP -> parsed(trueNode, pos + 1)
          [] token.type = BOT -> parsed(falseNode, pos + 1)
          [] token.type = LPAREN ->
                LET inner == parseLevel(tokens, pos + 1, 1)
                IN  IF inner.thrown
                    THEN inner
                    ELSE IF tokens[inner.pos].type = RPAREN
                    THEN parsed(inner.ast, inner.pos + 1)
                    ELSE parseFail("UnmatchedParenthesis", token)
          [] OTHER -> parseFail("MissingOperand", token)

\* NOT is a prefix operator, right-associative with itself.
parseNot(tokens, pos) ==
    IF tokens[pos].type = NOT
    THEN LET operand == parseNot(tokens, pos + 1)
         IN  IF operand.thrown
             THEN operand
             ELSE parsed(negateNode(operand.ast), operand.pos)
    ELSE parseAtom(tokens, pos)

\* The operands of a binary level are expressions of the next tighter level.
parseLevel(tokens, pos, level) ==
    IF level > Len(levelOperator)
    THEN parseNot(tokens, pos)
    ELSE LET lhs == parseLevel(tokens, pos, level + 1)
         IN  IF lhs.thrown
             THEN lhs
             ELSE IF levelOperator[level] = IMPLIES
             THEN IF tokens[lhs.pos].type = IMPLIES
                  THEN LET rhs == parseLevel(tokens, lhs.pos + 1, level)
                       IN  IF rhs.thrown
                           THEN rhs
                           ELSE parsed(levelNode(level, lhs.ast, rhs.ast), rhs.pos)
                  ELSE lhs
             ELSE parseRest(tokens, lhs.ast, lhs.pos, level)

\* The loop of a left-chaining level: while its operator is next.
parseRest(tokens, lhs, pos, level) ==
    IF tokens[pos].type = levelOperator[level]
    THEN LET rhs == parseLevel(tokens, pos + 1, level + 1)
         IN  IF rhs.thrown
             THEN rhs
             ELSE parseRest(tokens, levelNode(level, lhs, rhs.ast), rhs.pos, level)
    ELSE parsed(lhs, pos)

\* The rest of parse once scan has returned or thrown.
parseScanned(scanned) ==
        IF scanned.thrown
        THEN scanned
        ELSE LET tree == parseLevel(scanned.tokens, 1, 1)
             IN  IF tree.thrown
                 THEN tree
                 ELSE LET next == scanned.tokens[tree.pos]
                      IN  IF next.type = <<EOF>>
                          THEN [thrown |-> FALSE,
                                variables |-> scanned.variables,
                                ast |-> tree.ast]
                          ELSE IF next.type = RPAREN
                          THEN parseFail("UnmatchedParenthesis", next)
                          ELSE parseFail("UnexpectedToken", next)

\* parse(input): { variables, ast }, or the error thrown by scan or here.
parse(input) == parseScanned(scan(input))

(***************************************************************************)
(* The TruthTable component                                                *)
(***************************************************************************)
\* (1 << n) - 1 : the last row index taken for the number of rows.
shiftLeftOneMutant(n) == IF n % 32 = 31 THEN 0 - 2^30 - 2^30 - 1 ELSE 2^(n % 32) - 1

\* 1 << n : the shift count is taken modulo 32 and the result is a signed
\* 32-bit integer.
shiftLeftOne(n) == IF n % 32 = 31 THEN 0 - 2^30 - 2^30 ELSE 2^(n % 32)

\* (i >> k) & 1 for 0 <= i and 0 <= k < 31.
bit(i, k) == (i \div 2^k) % 2

\* The get trap without its negation: (target.i >> ...) & 1 read as the value.
getMutant(target, prop) ==
    IF prop \in 0..(target.length - 1)
    THEN IF (target.i \div 2^(target.length - prop - 1)) % 2 = 1 THEN true ELSE false
    ELSE undefined

\* The get trap of the assignment proxy for the property prop of target:
\* a numeric property k reads !((target.i >> (target.length - k - 1)) & 1),
\* any other property reads undefined.
get(target, prop) ==
    IF prop \in 0..(target.length - 1)
    THEN IF bit(target.i, target.length - prop - 1) = 1 THEN false ELSE true
    ELSE undefined

\* The virtual array the proxy presents: elements 0..length-1 of target.
assignment(target) == [k \in 0..(target.length - 1) |-> get(target, k)]

\* Array.from(assignment).map(v => v ? "T" : "F")
cells(target) ==
    [k \in 1..target.length |-> IF truthy(get(target, k - 1)) THEN "T" ELSE "F"]

\* One row of the table for row index i: the cells of the assignment and
\* the cell of the formula.
row(variables, ast, i) ==
    LET target == [length |-> Len(variables), i |-> i]
    IN  [cells |-> cells(target),
         result |-> IF truthy(evaluate(ast, assignment(target))) THEN "T" ELSE "F"]

\* The rows of {#each { length: 1 << variables.length } as _, i}.
truthTable(variables, ast) ==
    LET length == shiftLeftOne(Len(variables))
    IN  [k \in 1..length |-> row(variables, ast, k - 1)]

\* error = undefined
noError == [thrown |-> FALSE]

\* ast = {}
emptyObject == [node |-> "Object"]

\* The try and the catch of parseAndCatch around the outcome of parse(input):
\* the result handed back, and the error stored.
catch(result) ==
        IF result.thrown
        THEN [error |-> result, variables |-> <<>>, ast |-> emptyObject]
        ELSE [error |-> noError, variables |-> result.variables, ast |-> result.ast]

parseAndCatch(text) == catch(parse(text))

\* No scan has run in the last reaction to a change of the input.
notScanned == [thrown |-> FALSE, tokens |-> <<>>, variables |-> <<>>]

(***************************************************************************)
(* The text typed into the input field                                     *)
(***************************************************************************)
MaxPieces == 3

Vocabulary ==
    { <<"a">>, <<"z">>, <<" ">>,
      <<"/", "\\">>, <<"&", "&">>, <<"a", "n", "d">>,
      <<"-", ">">>, <<"\\", "t", "o">>, <<"p">>, <<"~">>,
      <<"(">>, <<")">>, <<"$">>, ProtoKey }

\* The formulas of the worked examples, pasted as a whole.
Examples ==
    { <<"p", " ", "/", "\\", " ", "$">>,
      <<"(", "p", " ", "/", "\\", " ", "q", ")">>,
      <<"(", "p", " ", "/", "\\", " ", "q">>,
      <<"p", " ", "/", "\\", " ", "q">>,
      <<"p", " ", "&", "&", " ", "q">>,
      <<"p", " ", "a", "n", "d", " ", "q">>,
      <<"p", " ", "u2227", " ", "q">>,
      <<"z", " ", "/", "\\", " ", "a", " ", "/", "\\", " ", "m">>,
      <<"m", " ", "\\", "/", " ", "z", " ", "\\", "/", " ", "a">>,
      <<"p", " ", "-", ">", " ", "q", " ", "/", "\\", " ", "~", "r">>,
      <<"p", " ", "<", "-", ">", " ", "q">>,
      <<"p", "#", "$">> }

VARIABLES
    pieces,      \* the pieces of text typed so far, input being their concatenation
    input,       \* the text of the input field
    error,       \* the stored error, noError when there is none
    variables,   \* the variable table of the last parse
    ast,         \* the tree of the last parse
    lexed,       \* what scan returned or threw in the last reaction
    value,       \* the target of the assignment proxy: { length, i }
    table,       \* the rows on display
    clipboard,   \* the text last written to the clipboard
    showCopied,  \* whether "Copied to clipboard!" is shown
    state,       \* the label counter of ast: let state
    calls        \* the top-level toLatexVar calls of the last factored export

vars ==
    <<pieces, input, error, variables, ast, lexed, value, table, clipboard, showCopied,
      state, calls>>

\* Whether the table and the export buttons are on display:
\* {#if error} ... {:else if input} ...
shown(text, err) == ~err.thrown /\ text # <<>>

\* The last row index the {#each} block stores in value.i, if it has a row.
lastIndex(length, i) == IF length >= 1 THEN length - 1 ELSE i

\* $: if (input != "") ({ variables, ast } = parseAndCatch(input));
\* $: value = { length: variables.length, i: 0 };
\* followed by the update of the table, which stores each row index in value.i.
InputChanged(text) ==
    /\ input' = text
    /\ IF text # <<>>
       THEN /\ lexed' = scan(text)
            /\ LET result == catch(parseScanned(lexed'))
               IN  /\ error' = result.error
                   /\ variables' = result.variables
                   /\ ast' = result.ast
       ELSE /\ lexed' = notScanned
            /\ UNCHANGED <<error, variables, ast>>
    /\ IF shown(input', error')
       THEN /\ table' = truthTable(variables', ast')
            /\ value' = [length |-> Len(variables'),
                         i |-> lastIndex(shiftLeftOne(Len(variables')), 0)]
       ELSE /\ table' = <<>>
            /\ value' = IF text # <<>>
                        THEN [length |-> Len(variables'), i |-> 0]
                        ELSE value
    /\ UNCHANGED <<clipboard, showCopied, state, calls>>

Init ==
    /\ pieces = <<>>
    /\ input = <<>>
    /\ error = noError
    /\ variables = <<>>
    /\ ast = emptyObject
    /\ lexed = notScanned
    /\ value = [length |-> 0, i |-> 0]
    /\ table = <<>>
    /\ clipboard = <<>>
    /\ showCopied = FALSE
    /\ state = initialState
    /\ calls = <<>>

\* The user types one more piece of text at the end of the field.
Type(piece) ==
    /\ Len(pieces) < MaxPieces
    /\ pieces' = Append(pieces, piece)
    /\ InputChanged(input \o piece)

\* The user pastes a formula into the empty field.
Paste(text) ==
    /\ input = <<>>
    /\ pieces' = <<text>>
    /\ InputChanged(text)

\* The user empties the field.
Clear ==
    /\ input # <<>>
    /\ pieces' = <<>>
    /\ InputChanged(<<>>)

Next ==
    \/ \E piece \in Vocabulary : Type(piece)
    \/ \E text \in Examples : Paste(text)
    \/ Clear

Spec == Init /\ [][Next]_vars

(***************************************************************************)
(* The table and the export of a tree, for every tree of a bounded shape   *)
(***************************************************************************)
MaxVars == 3

\* The names of a variable table of size n: sorted and distinct.
Names == <<<<"a">>, <<"m">>, <<"p">>, <<"q">>, <<"z">>>>

tableOf(n) == SubSeq(Names, 1, n)

Binary == {"andNode", "orNode", "impliesNode", "iffNode", "xorNode"}

Leaves(n) == {trueNode, falseNode} \cup {variableNode(k) : k \in 0..(n - 1)}

Simple(n) ==
    Leaves(n)
    \cup {negateNode(x) : x \in Leaves(n)}
    \cup {[node |-> b, lhs |-> x, rhs |-> y] : b \in Binary, x \in Leaves(n), y \in Leaves(n)}

\* The formula of the worked truth table, p -> (q /\ ~r).
Worked(n) ==
    IF n >= 3
    THEN {impliesNode(variableNode(0),
                      andNode(variableNode(1), negateNode(variableNode(2))))}
    ELSE {}

\* Two binary nodes over the first two and the last two variables, joined.
Paired(n) ==
    IF n >= 2
    THEN {[node |-> b,
           lhs |-> [node |-> c, lhs |-> variableNode(0), rhs |-> variableNode(1)],
           rhs |-> [node |-> d, lhs |-> variableNode(n - 2), rhs |-> variableNode(n - 1)]] :
            b \in Binary, c \in Binary, d \in Binary}
    ELSE {}

\* The indices of the variables of a tree.
RECURSIVE indices(_)
indices(n) ==
    CASE n.node \in {"trueNode", "falseNode"} -> {}
      [] n.node = "negateNode" -> indices(n.underlying)
      [] n.node = "variableNode" -> {n.index}
      [] OTHER -> indices(n.lhs) \cup indices(n.rhs)

Shapes(n) ==
    Simple(n)
    \cup Worked(n)
    \cup Paired(n)
    \cup {negateNode(x) : x \in Simple(n)}
    \cup {[node |-> b, lhs |-> x, rhs |-> y] : b \in Binary, x \in Simple(n), y \in Leaves(n)}
    \cup {[node |-> b, lhs |-> x, rhs |-> y] : b \in Binary, x \in Leaves(n), y \in Simple(n)}

\* The trees a formula with exactly n variables can have: every variable of
\* the table occurs in the tree.
Trees(n) == {tree \in Shapes(n) : indices(tree) = 0..(n - 1)}

\* "c".repeat(n)
repeat(s, n) == [k \in 1..n |-> s]

\* pieces.join(separator)
RECURSIVE join(_, _)
join(list, separator) ==
    IF list = <<>> THEN <<>>
    ELSE IF Len(list) = 1 THEN list[1]
    ELSE list[1] \o <<separator>> \o join(Tail(list), separator)

\* The rows the for loop of exportToLatex appends, from row index i on.
RECURSIVE exportRows(_, _, _)
exportRows(names, tree, i) ==
    IF i < shiftLeftOne(Len(names))
    THEN LET r == row(names, tree, i)
         IN  <<join([k \in DOMAIN r.cells |-> <<r.cells[k]>>], " & ")
                 \o <<" & ", r.result, " \\\\\n">>>>
             \o exportRows(names, tree, i + 1)
    ELSE <<>>

\* The text exportToLatex writes: its header, its rows and its last line.
exportToLatex(names, tree) ==
    [header |-> <<"\\begin{center}\\begin{tabular}{">> \o repeat("c", Len(names))
                    \o <<"|c}\n">>
                    \o join([k \in DOMAIN names |-> <<"$">> \o names[k] \o <<"$">>], " &\n")
                    \o <<" &\n$">> \o toLatex(tree, names) \o <<"$\n">>
                    \o <<"\\\\\\hline\n">>,
     rows |-> exportRows(names, tree, 0),
     footer |-> <<"\\end{tabular}\\end{center}">>]

\* end.startsWith("\\neg "): no name and no label begins with a backslash.
startsWithNeg(text) == text # <<>> /\ text[1] = "\\neg "

\* One top-level call of toLatexVar as the export makes it: the row index
\* in value.i, the counter it started from, and what it returned and left.
call(i, start, result) ==
    [i |-> i, start |-> start, keys |-> result.keys, text |-> result.text,
     state |-> result.state]

\* The header cells of the labelled columns, from the k-th key on.
RECURSIVE exportVarColumns(_, _, _)
exportVarColumns(keys, negatedEnd, k) ==
    IF k > Len(keys) THEN <<>>
    ELSE (IF k = Len(keys) /\ ~negatedEnd
          THEN <<" &\n$">> \o keys[k].latex \o <<"$">>
          ELSE <<" &\n$\\overbrace{">> \o keys[k].latex \o <<"}^", keys[k].key, "$">>)
         \o exportVarColumns(keys, negatedEnd, k + 1)

\* The for loop of exportToLatexVar from row index i on.  done holds the
\* rows appended so far, the calls of ast.toLatexVar made so far, each with
\* keys = {} and the counter as the call before left it, and the counter.
RECURSIVE exportVarRows(_, _, _, _, _)
exportVarRows(names, tree, negatedEnd, i, done) ==
    IF i < shiftLeftOne(Len(names))
    THEN LET target == [length |-> Len(names), i |-> i]
             r == row(names, tree, i)
             result == toLatexVar(tree, names, assignment(target),
                                  [keys |-> <<>>, state |-> done.state])
             line == join([k \in DOMAIN r.cells |-> <<r.cells[k]>>], " & ")
                       \o [k \in DOMAIN result.keys |->
                             IF truthy(result.keys[k].value) THEN " & T" ELSE " & F"]
                       \o (IF negatedEnd THEN <<" & ", r.result>> ELSE <<>>)
                       \o <<" \\\\\n">>
         IN  exportVarRows(names, tree, negatedEnd, i + 1,
                           [rows |-> Append(done.rows, line),
                            calls |-> Append(done.calls, call(i, done.state, result)),
                            state |-> result.state])
    ELSE done

\* exportToLatexVar with the counter at counter: the text written, the
\* top-level calls made (the header call first, with value.i = 0), and the
\* counter left.
exportToLatexVar(names, tree, counter) ==
    LET target == [length |-> Len(names), i |-> 0]
        end == toLatexVarImported(tree, names, assignment(target),
                                  [keys |-> <<>>, state |-> counter])
        negatedEnd == startsWithNeg(end.text)
        body == exportVarRows(names, tree, negatedEnd, 0,
                              [rows |-> <<>>, calls |-> <<call(0, resetState, end)>>,
                               state |-> end.state])
    IN  [header |-> <<"\\begin{center}\\begin{tabular}{">> \o repeat("c", Len(names))
                        \o <<"|">>
                        \o repeat("c", Len(end.keys) + 1 + (IF negatedEnd THEN 1 ELSE 0))
                        \o <<"}\n">>
                        \o join([k \in DOMAIN names |-> <<"$">> \o names[k] \o <<"$">>], " &\n")
                        \o exportVarColumns(end.keys, negatedEnd, 1)
                        \o (IF negatedEnd THEN <<" &\n$">> \o end.text \o <<"$">> ELSE <<>>)
                        \o <<"\n\\\\\\hline\n">>,
         rows |-> body.rows,
         footer |-> <<"\\end{tabular}\\end{center}">>,
         calls |-> body.calls,
         state |-> body.state]

\* The component once a formula with n variables has been parsed into tree.
\* Neither the table nor the export reads the text of the field again.
InitTable ==
    \E n \in 0..MaxVars : \E tree \in Trees(n) :
        /\ pieces = <<>>
        /\ input = toLatex(tree, tableOf(n))
        /\ error = noError
        /\ variables = tableOf(n)
        /\ ast = tree
        /\ lexed = notScanned
        /\ value = [length |-> n, i |-> 0]
        /\ table = <<>>
        /\ clipboard = <<>>
        /\ showCopied = FALSE
        /\ state = initialState
        /\ calls = <<>>

\* The update of the table: one row per row index, each stored in value.i.
Render ==
    /\ shown(input, error)
    /\ table = <<>>
    /\ table' = truthTable(variables, ast)
    /\ value' = [value EXCEPT !.i = lastIndex(shiftLeftOne(Len(variables)), @)]
    /\ UNCHANGED <<pieces, input, error, variables, ast, lexed, clipboard, showCopied,
                   state, calls>>

\* on:click={exportToLatex}
ExportToLatex ==
    /\ shown(input, error)
    /\ table # <<>>
    /\ clipboard' = exportToLatex(variables, ast)
    /\ value' = [value EXCEPT !.i = lastIndex(shiftLeftOne(Len(variables)), @)]
    /\ showCopied' = TRUE
    /\ UNCHANGED <<pieces, input, error, variables, ast, lexed, table, state, calls>>

\* on:click={exportToLatexVar}; the for loop leaves value.i at the first
\* row index it did not take.
ExportToLatexVar ==
    /\ shown(input, error)
    /\ table # <<>>
    /\ LET export == exportToLatexVar(variables, ast, state)
       IN  /\ clipboard' = [header |-> export.header, rows |-> export.rows,
                            footer |-> export.footer]
           /\ calls' = export.calls
           /\ state' = export.state
    /\ value' = [value EXCEPT !.i = IF shiftLeftOne(Len(variables)) > 0
                                    THEN shiftLeftOne(Len(variables)) ELSE 0]
    /\ showCopied' = TRUE
    /\ UNCHANGED <<pieces, input, error, variables, ast, lexed, table>>

\* setTimeout(() => showCopied = false, 1000)
CopiedTimeout ==
    /\ showCopied
    /\ showCopied' = FALSE
    /\ UNCHANGED <<pieces, input, error, variables, ast, lexed, value, table, clipboard,
                   state, calls>>

NextTable == Render \/ ExportToLatex \/ ExportToLatexVar \/ CopiedTimeout

SpecTable == InitTable /\ [][NextTable]_vars

(***************************************************************************)
(* Properties of the table (SpecTable)                                     *)
(***************************************************************************)
\* The number whose binary digits, most significant first, are 1 where the
\* cell reads digit and 0 elsewhere.
RECURSIVE number(_, _)
number(cellsOfRow, digit) ==
    IF cellsOfRow = <<>> THEN 0
    ELSE (IF cellsOfRow[Len(cellsOfRow)] = digit THEN 1 ELSE 0)
         + 2 * number(SubSeq(cellsOfRow, 1, Len(cellsOfRow) - 1), digit)

\* C1, as stated: in the row of index i, variable k is true exactly when bit
\* (n-1-k) of i is 1: the cells read T where i has a 1, variable 0 first.
C1_BitSetMeansTrue ==
    \A r \in DOMAIN table : number(table[r].cells, "T") = r - 1

\* C1, amended: in the row of index i, variable k is true exactly when bit
\* (n-1-k) of i is 0, variable 0 being the most significant bit; for two
\* variables the row of index 1 reads T, F.
C1_BitClearMeansTrue ==
    /\ \A r \in DOMAIN table :
          /\ Len(table[r].cells) = Len(variables)
          /\ number(table[r].cells, "F") = r - 1
    /\ (Len(variables) = 2 /\ Len(table) >= 2) => table[2].cells = <<"T", "F">>

C1_Witness ==
    /\ Len(variables) = 2
    /\ Len(table) = 4
    /\ table[2].cells = <<"T", "F">>

\* C2: the table and the export have exactly 2^n rows, one for each of the
\* 2^n truth assignments, no two rows with the same assignment.
allCells(n) == [1..n -> {"T", "F"}]

exportCells(line) ==
    [k \in 1..Len(variables) |-> line[2 * k - 1]]

C2_EveryAssignmentOnce ==
    /\ table # <<>> =>
          /\ Len(table) = 2^Len(variables)
          /\ \A r, s \in DOMAIN table : table[r].cells = table[s].cells => r = s
          /\ {table[r].cells : r \in DOMAIN table} = allCells(Len(variables))
    /\ clipboard # <<>> =>
          /\ Len(clipboard.rows) = 2^Len(variables)
          /\ \A r, s \in DOMAIN clipboard.rows :
                exportCells(clipboard.rows[r]) = exportCells(clipboard.rows[s]) => r = s
          /\ {exportCells(clipboard.rows[r]) : r \in DOMAIN clipboard.rows}
                = allCells(Len(variables))

C2_Witness ==
    /\ Len(variables) = 3
    /\ Len(table) = 8
    /\ clipboard # <<>>
    /\ Len(clipboard.rows) = 8

\* The truth value of a tree under the assignment a row displays, by the
\* truth tables of the connectives.
RECURSIVE holds(_, _)
holds(n, cellsOfRow) ==
    CASE n.node = "trueNode" -> TRUE
      [] n.node = "falseNode" -> FALSE
      [] n.node = "negateNode" -> ~holds(n.underlying, cellsOfRow)
      [] n.node = "andNode" -> holds(n.lhs, cellsOfRow) /\ holds(n.rhs, cellsOfRow)
      [] n.node = "orNode" -> holds(n.lhs, cellsOfRow) \/ holds(n.rhs, cellsOfRow)
      [] n.node = "impliesNode" -> holds(n.lhs, cellsOfRow) => holds(n.rhs, cellsOfRow)
      [] n.node = "iffNode" -> holds(n.lhs, cellsOfRow) <=> holds(n.rhs, cellsOfRow)
      [] n.node = "xorNode" -> holds(n.lhs, cellsOfRow) # holds(n.rhs, cellsOfRow)
      [] n.node = "variableNode" -> cellsOfRow[n.index + 1] = "T"

\* C3: for every tree and every assignment, evaluate returns the truth value
\* the truth tables of the connectives give.
C3_EvaluateIsStandard ==
    \A r \in DOMAIN table :
        table[r].result = IF holds(ast, table[r].cells) THEN "T" ELSE "F"

C3_Witness ==
    /\ ast = impliesNode(variableNode(0),
                         andNode(variableNode(1), negateNode(variableNode(2))))
    /\ [r \in DOMAIN table |-> table[r].result]
          = <<"F", "T", "F", "F", "T", "T", "T", "T">>

(***************************************************************************)
(* Properties of the renderings (SpecTable)                                *)
(***************************************************************************)
\* The number of binary nodes of a tree.
RECURSIVE binaryCount(_)
binaryCount(n) ==
    CASE n.node \in {"trueNode", "falseNode", "variableNode"} -> 0
      [] n.node = "negateNode" -> binaryCount(n.underlying)
      [] OTHER -> 1 + binaryCount(n.lhs) + binaryCount(n.rhs)

\* How many pieces of a text are the piece.
count(text, piece) == Cardinality({k \in DOMAIN text : text[k] = piece})

\* (a /\ m) \/ p
orOfAnd == orNode(andNode(variableNode(0), variableNode(1)), variableNode(2))

\* C11: toString and toLatex wrap every binary node in exactly one pair of
\* parentheses and add none for a negation, a variable or a constant: each
\* rendering has as many "(" as ")" as the tree has binary nodes, and
\* Or(And(a, m), p) renders as ((a AND m) OR p).
C11_FullyParenthesized ==
    LET b == binaryCount(ast)
        display == toString(ast, variables)
        latex == toLatex(ast, variables)
    IN  /\ count(display, "(") = b
        /\ count(display, ")") = b
        /\ count(latex, "(") = b
        /\ count(latex, ")") = b
        /\ ast = orOfAnd =>
              /\ display = <<"(", "(", "a", " &and; ", "m", ")", " &or; ", "p", ")">>
              /\ latex = <<"(", "(", "a", " \\land ", "m", ")", " \\lor ", "p", ")">>
        /\ clipboard # <<>> =>
              count(clipboard.header, "(") = b /\ count(clipboard.header, ")") = b

C11_Witness ==
    /\ ast = orOfAnd
    /\ clipboard = exportToLatex(variables, ast)
    /\ count(clipboard.header, "(") = 2

\* The paths of the binary nodes of a tree in post-order: those of the left
\* operand, those of the right operand, then the node itself.
RECURSIVE postOrder(_)
postOrder(n) ==
    CASE n.node \in {"trueNode", "falseNode", "variableNode"} -> <<>>
      [] n.node = "negateNode" -> below("underlying", postOrder(n.underlying))
      [] OTHER -> below("lhs", postOrder(n.lhs)) \o below("rhs", postOrder(n.rhs))
                    \o <<<<>>>>

\* The node at path lies strictly beneath the node at above.
beneath(path, above) ==
    Len(path) > Len(above) /\ SubSeq(path, 1, Len(above)) = above

\* The place of a path in a sequence of distinct paths.
place(paths, path) == CHOOSE k \in DOMAIN paths : paths[k] = path

connective(n) ==
    CASE n.node = "andNode" -> " \\land "
      [] n.node = "orNode" -> " \\lor "
      [] n.node = "impliesNode" -> " \\implies "
      [] n.node = "iffNode" -> " \\iff "
      [] n.node = "xorNode" -> " \\oplus "

\* What the node at path hands to its parent when the binary nodes carry
\* the keys of entries in post-order: a binary node its bare letter.
RECURSIVE handed(_, _, _, _)
handed(tree, path, names, entries) ==
    LET n == at(tree, path)
    IN  CASE n.node = "trueNode" -> <<"\\top">>
          [] n.node = "falseNode" -> <<"\\bot">>
          [] n.node = "variableNode" -> names[n.index + 1]
          [] n.node = "negateNode" ->
                <<"\\neg ">> \o handed(tree, path \o <<"underlying">>, names, entries)
          [] OTHER -> <<entries[place(postOrder(tree), path)].key>>

\* The LaTeX of the binary node at path itself, its operands as handed.
ownLatex(tree, path, names, entries) ==
    <<"(">> \o handed(tree, path \o <<"lhs">>, names, entries)
            \o <<connective(at(tree, path))>>
            \o handed(tree, path \o <<"rhs">>, names, entries) \o <<")">>

\* The assignment in effect for a top-level call.
assignmentOf(c) == assignment([length |-> Len(variables), i |-> c.i])

keysOf(c) == [k \in DOMAIN c.keys |-> c.keys[k].key]

\* C13: every top-level call of the factored rendering starts with the
\* label counter at its initial value: the header call and each of the
\* per-row calls of an export label from A on, so all of them leave the same
\* keys in the same order, whatever was exported before.
C13_EveryCallStartsAtA ==
    \A j \in DOMAIN calls :
        /\ calls[j].start = initialState
        /\ keysOf(calls[j]) = keysOf(calls[1])
        /\ calls[j].keys # <<>> => calls[j].keys[1].key = "A"

\* The pieces T and F of a rendering written as the factored rendering
\* writes the constants.
asFactored(text) ==
    [k \in DOMAIN text |->
        IF text[k] = "T" THEN "\\top" ELSE IF text[k] = "F" THEN "\\bot" ELSE text[k]]

\* C17 as stated: a leaf is rendered as toLatex renders it and a negation
\* takes no label, so a tree with no binary node is rendered as toLatex
\* renders it.
C17_LeavesLikeToLatex ==
    \A j \in DOMAIN calls :
        binaryCount(ast) = 0 =>
            /\ calls[j].text = toLatex(ast, variables)
            /\ calls[j].keys = <<>>
            /\ calls[j].state = calls[j].start

\* C17: in the factored rendering a variable is rendered as toLatex renders
\* it, the constants are rendered \top and \bot where toLatex writes T and F,
\* and a negation returns \neg followed by the rendering of its operand
\* without taking a label or adding an entry; so a tree with no binary node
\* is rendered as toLatex renders it but for its constants.
C17_LeavesAndNegation ==
    \A j \in DOMAIN calls :
        LET c == calls[j]
        IN  /\ ast.node = "variableNode" => c.text = toLatex(ast, variables)
            /\ ast.node = "trueNode" =>
                  c.text = <<"\\top">> /\ toLatex(ast, variables) = <<"T">>
            /\ ast.node = "falseNode" =>
                  c.text = <<"\\bot">> /\ toLatex(ast, variables) = <<"F">>
            /\ ast.node = "negateNode" =>
                  LET operand == toLatexVar(ast.underlying, variables, assignmentOf(c),
                                            [keys |-> <<>>, state |-> c.start])
                  IN  /\ c.text = <<"\\neg ">> \o operand.text
                      /\ c.keys = operand.keys
                      /\ c.state = operand.state
            /\ Len(c.keys) = binaryCount(ast)
            /\ binaryCount(ast) = 0 =>
                  /\ c.text = asFactored(toLatex(ast, variables))
                  /\ c.keys = <<>>
                  /\ c.state = c.start

C17_Witness ==
    /\ ast = negateNode(trueNode)
    /\ calls # <<>>
    /\ calls[1].text = <<"\\neg ", "\\top">>
    /\ clipboard.rows = << <<" & ", "F", " \\\\\n">> >>

\* The binary nodes an evaluation of the tree under the assignment of row r
\* calls evaluate on.
evaluatedBinary(r) ==
    LET made == evaluateCalls(ast, assignmentOf([i |-> r - 1]))
    IN  {made[k] : k \in {m \in DOMAIN made : at(ast, made[m]).node \in Binary}}

\* How many of the calls of an evaluation are calls on the node at path.
callsOn(r, path) ==
    LET made == evaluateCalls(ast, assignmentOf([i |-> r - 1]))
    IN  Cardinality({k \in DOMAIN made : made[k] = path})

\* C18 as stated: an evaluate call on a binary node evaluates both operands
\* exactly once, whatever the left operand returns.
C18_BothOperandsEvaluated ==
    \A r \in DOMAIN table : \A path \in evaluatedBinary(r) :
        /\ callsOn(r, path \o <<"lhs">>) = 1
        /\ callsOn(r, path \o <<"rhs">>) = 1

\* Whether the operand at path holds in row r.
holdsAt(r, path) == holds(at(ast, path), table[r].cells)

\* C18: an evaluate call on a binary node evaluates its left operand exactly
\* once; it evaluates its right operand exactly once when the left operand
\* does not decide the result and not at all when it does: And and Implies
\* skip the right operand of a false left operand, Or that of a true one,
\* Iff and Xor always evaluate both.
C18_RightOperandOnlyWhenNeeded ==
    \A r \in DOMAIN table : \A path \in evaluatedBinary(r) :
        LET kind == at(ast, path).node
            left == holdsAt(r, path \o <<"lhs">>)
            needed == CASE kind \in {"andNode", "impliesNode"} -> left
                        [] kind = "orNode" -> ~left
                        [] OTHER -> TRUE
        IN  /\ callsOn(r, path \o <<"lhs">>) = 1
            /\ callsOn(r, path \o <<"rhs">>) = IF needed THEN 1 ELSE 0

C18_Witness ==
    /\ ast = andNode(variableNode(0), variableNode(1))
    /\ Len(table) = 4
    /\ table[4].cells = <<"F", "F">>
    /\ evaluateCalls(ast, assignmentOf([i |-> 3])) = << <<>>, <<"lhs">> >>

(***************************************************************************)
(* Properties of the scanner (Spec)                                        *)
(***************************************************************************)
\* scan has returned for the text of the field.
scanned == input # <<>> /\ ~lexed.thrown

\* The characters of the input a token spans.
spelling(token) == substring(input, token.start, token.end)

variableTokens == {k \in DOMAIN lexed.tokens : lexed.tokens[k].type = variableType}

\* C4: after a successful scan the variable table holds exactly the variable
\* spellings of the input, each once, in strictly increasing order.
C4_TableIsSortedSpellings ==
    scanned =>
        /\ Range(lexed.variables) = {spelling(lexed.tokens[k]) : k \in variableTokens}
        /\ \A j, k \in DOMAIN lexed.variables :
              j < k => strLess(lexed.variables[j], lexed.variables[k])

\* C5: after a successful scan every VARIABLE token carries an index in
\* 0..n-1 whose table entry is the token's spelling, and every index in
\* 0..n-1 is carried by some token.
C5_IndexNamesSpelling ==
    scanned =>
        LET n == Len(lexed.variables)
        IN  /\ \A k \in variableTokens :
                  /\ lexed.tokens[k].index \in 0..(n - 1)
                  /\ lexed.variables[lexed.tokens[k].index + 1] = spelling(lexed.tokens[k])
            /\ \A i \in 0..(n - 1) : \E k \in variableTokens : lexed.tokens[k].index = i

\* C6: after a successful scan the last token is EOF and no other token is.
C6_SingleFinalEOF ==
    scanned =>
        /\ Len(lexed.tokens) >= 1
        /\ lexed.tokens[Len(lexed.tokens)].type = <<EOF>>
        /\ \A k \in 1..(Len(lexed.tokens) - 1) : lexed.tokens[k].type # <<EOF>>

C6_Witness ==
    /\ input = <<"p", " ", "/", "\\", " ", "q">>
    /\ scanned
    /\ [k \in DOMAIN lexed.tokens |-> lexed.tokens[k].type] = <<variableType, AND, variableType, <<EOF>>>>

\* Tokens are in the order of the input: each starts where the one before
\* it ended or later.
leftToRight ==
    /\ \A k \in DOMAIN lexed.tokens : lexed.tokens[k].start >= 0
    /\ \A k \in 1..(Len(lexed.tokens) - 1) :
          lexed.tokens[k].end <= lexed.tokens[k + 1].start

\* C7, as stated: start < end for every token but EOF, start = end for EOF,
\* and the tokens are in the order of the input.
C7_EOFIsZeroWidth ==
    scanned =>
        /\ \A k \in DOMAIN lexed.tokens :
              IF lexed.tokens[k].type = <<EOF>>
              THEN lexed.tokens[k].start = lexed.tokens[k].end
              ELSE lexed.tokens[k].start < lexed.tokens[k].end
        /\ leftToRight

\* C7, amended: start < end for every token, EOF included: the EOF token spans
\* the one marker character appended to the input, from the length of the
\* input to the length plus one; the tokens are in the order of the input.
C7_EOFSpansTheMarker ==
    scanned =>
        /\ \A k \in DOMAIN lexed.tokens :
              /\ lexed.tokens[k].start < lexed.tokens[k].end
              /\ lexed.tokens[k].type = <<EOF>> =>
                    /\ lexed.tokens[k].start = Len(input)
                    /\ lexed.tokens[k].end = Len(input) + 1
              /\ lexed.tokens[k].type # <<EOF>> => lexed.tokens[k].end <= Len(input)
        /\ leftToRight

C7_Witness ==
    /\ input = <<"p", " ", "&", "&", " ", "q">>
    /\ scanned
    /\ [k \in DOMAIN lexed.tokens |-> <<lexed.tokens[k].start, lexed.tokens[k].end>>]
          = <<<<0, 1>>, <<2, 4>>, <<5, 6>>, <<6, 7>>>>

\* The offsets of the characters of the input outside the allowed set.
illegal == {i \in 0..(Len(input) - 1) : charAt(input, i) \notin okayChars}

\* C8: an input with a character outside the allowed set fails with the
\* illegal-character error spanning the leftmost such character alone, and
\* yields no token, no variable and no tree.
C8_LeftmostIllegalCharacter ==
    (input # <<>> /\ illegal # {}) =>
        /\ lexed.thrown
        /\ lexed.description = <<"Illegal character">>
        /\ lexed.start \in illegal
        /\ \A i \in illegal : lexed.start <= i
        /\ lexed.end = lexed.start + 1
        /\ "tokens" \notin DOMAIN lexed
        /\ error = lexed
        /\ variables = <<>>
        /\ ast = emptyObject

C8_Witness ==
    /\ input = <<"p", " ", "/", "\\", " ", "$">>
    /\ error = [thrown |-> TRUE, description |-> <<"Illegal character">>,
                start |-> 5, end |-> 6]

\* The concatenation of pieces of text.
RECURSIVE flatten(_)
flatten(pcs) == IF pcs = <<>> THEN <<>> ELSE Head(pcs) \o flatten(Tail(pcs))

\* The pieces with every alias replaced by the canonical alias of its
\* operator: the same text but for the alias written at each operator.
canonical(pcs) ==
    [k \in DOMAIN pcs |-> IF pcs[k] \in DOMAIN convert THEN convert[pcs[k]] ELSE pcs[k]]

\* The spans of the pieces that are not white space, the first at offset.
RECURSIVE spansFrom(_, _)
spansFrom(pcs, offset) ==
    IF pcs = <<>> THEN <<>>
    ELSE (IF Head(pcs) = <<" ">> THEN <<>> ELSE <<<<offset, offset + Len(Head(pcs))>>>>)
         \o spansFrom(Tail(pcs), offset + Len(Head(pcs)))

\* The scanner has read every piece as a lexeme of its own.
aligned(pcs, result) ==
    /\ ~result.thrown
    /\ [k \in 1..(Len(result.tokens) - 1) |->
            <<result.tokens[k].start, result.tokens[k].end>>] = spansFrom(pcs, 0)

\* The type of each token, with the index of a variable.
kinds(result) ==
    [k \in DOMAIN result.tokens |->
        <<result.tokens[k].type,
          IF result.tokens[k].type = variableType THEN result.tokens[k].index ELSE 0>>]

\* C9, as stated: an input and the input with another alias of the same
\* operator at each operator position give the same token types, variable
\* table and variable indices.
C9_AliasesAlwaysAgree ==
    input # <<>> =>
        LET other == scan(flatten(canonical(pieces)))
        IN  /\ other.thrown = lexed.thrown
            /\ ~lexed.thrown =>
                  /\ kinds(other) = kinds(lexed)
                  /\ other.variables = lexed.variables

\* C9, amended: they give the same token types, variable table, variable
\* indices, tree and rows whenever the scanner reads each alias, in both
\* inputs, as a lexeme of its own; an alias that runs into the characters
\* next to it is read as another lexeme.
C9_SeparateAliasesAgree ==
    LET other == scan(flatten(canonical(pieces)))
    IN  (input # <<>> /\ aligned(pieces, lexed) /\ aligned(canonical(pieces), other)) =>
            LET result == catch(parseScanned(other))
            IN  /\ kinds(other) = kinds(lexed)
                /\ other.variables = lexed.variables
                /\ result.error.thrown = error.thrown
                /\ result.ast = ast
                /\ ~error.thrown => truthTable(result.variables, result.ast) = table

C9_Witness ==
    /\ pieces = <<<<"a", "n", "d">>, <<" ">>, <<"a">>>>
    /\ aligned(pieces, lexed)
    /\ kinds(lexed) = <<<<AND, 0>>, <<variableType, 0>>, <<<<EOF>>, 0>>>>
    /\ kinds(scan(<<"/", "\\", " ", "a">>)) = kinds(lexed)

\* C10: the scanner accepts parentheses: it never fails at a parenthesis,
\* and (p /\ q) is scanned without an error.
C10_ParenthesesAreScanned ==
    /\ (input # <<>> /\ lexed.thrown) => charAt(input, lexed.start) \notin {"(", ")"}
    /\ input = <<"(", "p", " ", "/", "\\", " ", "q", ")">> => ~lexed.thrown

(***************************************************************************)
(* Properties of the stored error (Spec)                                   *)
(***************************************************************************)
\* C14: a failed parse leaves no residual state: whenever an error is
\* stored, parsing the text now in the field fails with exactly that error,
\* so no error of an earlier text survives a change of the text, a change to
\* the empty text included; and with an error stored there is no variable
\* and no tree.
C14_StoredErrorIsOfCurrentInput ==
    error.thrown =>
        /\ parseAndCatch(input).error = error
        /\ variables = <<>>
        /\ ast = emptyObject

(***************************************************************************)
(* Properties of the lexemes (Spec)                                        *)
(***************************************************************************)
\* The tokens of the last scan that are neither variables nor the EOF marker.
operatorTokens ==
    {k \in DOMAIN lexed.tokens : lexed.tokens[k].type \notin {variableType, <<EOF>>}}

\* The alias key is written in the input at index.
writtenAt(key, index) == substring(input, index, index + Len(key)) = key

\* C15: where no variable name starts, the lexer takes the longest alias
\* written at the position: the token spans an alias, is of the type of that
\* alias, and no longer alias is written at its start; <-> is one IFF token
\* and \top is one TRUE token.
C15_LongestAlias ==
    scanned =>
        /\ \A k \in operatorTokens :
              LET token == lexed.tokens[k]
              IN  /\ spelling(token) \in DOMAIN convert
                  /\ Len(spelling(token)) = token.end - token.start
                  /\ token.type = convert[spelling(token)]
                  /\ \A key \in DOMAIN convert :
                        writtenAt(key, token.start) => Len(key) <= token.end - token.start
        /\ input = <<"\\", "t", "o", "p">> =>
              lexed.tokens = <<[type |-> TOP, start |-> 0, end |-> 4],
                               [type |-> <<EOF>>, start |-> 4, end |-> 5]>>
        /\ input = <<"p", " ", "<", "-", ">", " ", "q">> =>
              /\ Len(lexed.tokens) = 4
              /\ lexed.tokens[2] = [type |-> IFF, start |-> 2, end |-> 5]

C15_Witness ==
    /\ pieces = <<<<"\\", "t", "o">>, <<"p">>>>
    /\ scanned
    /\ Len(lexed.tokens) = 2
    /\ lexed.tokens[1].type = TOP
    /\ lexed.tokens[1].end = 4

\* The indices at which a maximal run of name characters starts in the
\* input: a name-start character that follows no name character.
runStarts ==
    {i \in 0..(Len(input) - 1) :
        /\ charAt(input, i) \in NameStart
        /\ i > 0 => charAt(input, i - 1) \notin NameChar}

\* The token of the last scan that starts at index i, as a set.
tokensAt(i) == {k \in DOMAIN lexed.tokens : lexed.tokens[k].start = i}

\* The run of name characters from index i is lexed as one token: a variable
\* unless the run is a reserved word, and then the token of that word.
lexedAsRun(i) ==
    LET run == readNameChars(input, i)
    IN  \E k \in tokensAt(i) :
            /\ lexed.tokens[k].end = i + Len(run)
            /\ IF isReservedWord(run)
               THEN lexed.tokens[k].type = convert[run]
               ELSE lexed.tokens[k].type = variableType

\* No reserved word is in the variable table.
noReservedVariable ==
    \A k \in DOMAIN lexed.variables : ~isReservedWord(lexed.variables[k])

====
